---- MODULE Spec2Model ----
(***************************************************************************)
(* The command evaluator of the mini-shell (src/src/cmd.c): parse_command  *)
(* walks a parsed command tree, parse_simple runs one simple command, and  *)
(* redirect / restore_fd rebind the standard streams.  Every process       *)
(* (the shell, the children it forks, the programs they exec) is a         *)
(* component of procs; a shell process is a stack of frames, one per       *)
(* active call of parse_command, and each step between two system calls is *)
(* one action.                                                             *)
(***************************************************************************)
EXTENDS Integers, Sequences, FiniteSets, TLC

(* ------------------------------ bounds -------------------------------- *)

\* An external program exits with a status in 0..MaxStatus.
MaxStatus == 2

\* An external program writes at most MaxWrite bytes to its standard output.
MaxWrite == 2

\* A kernel pipe buffers at most PipeCap bytes; a write to a full pipe blocks.
PipeCap == 1

(* -------------------------- program constants ------------------------- *)

READ == 0
WRITE == 1
STDIN_FILENO == 0
STDOUT_FILENO == 1
STDERR_FILENO == 2
EXIT_SUCCESS == 0
EXIT_FAILURE == 1
\* cmd.h: the value parse_simple returns for exit / quit.
SHELL_EXIT == -100
O_RDONLY == 0
O_WRONLY == 1
O_APPEND == 1024
\* The signal that ends a process writing to a pipe nobody reads.
SIGPIPE == 13

\* wait(2): the status word of a process that called exit(code).
ExitedStatus(code) == (code % 256) * 256

\* wait(2): the status word of a process ended by signal sig.
SignaledStatus(sig) == sig

\* WEXITSTATUS(wstatus): bits 8..15 of the status word.
WEXITSTATUS(wstatus) == (wstatus \div 256) % 256

\* The values an int that was never assigned may hold when it is read
\* (ret at lines 259 and 272 when cmd1 is NULL, second_wstatus at line 324
\* when waitpid failed): any status word of an exit status of the model.
UninitWstatus == {ExitedStatus(s) : s \in 0..MaxStatus}

(* ------------------------------- words -------------------------------- *)

\* A string is a sequence of characters; a word_t is the sequence of its
\* parts (string, next_part); NULL is the word, or the string, without any.
NULL == <<>>

RECURSIVE get_word(_)
\* utils: the concatenation of the parts of a word; NULL for NULL.
get_word(w) == IF w = NULL THEN NULL ELSE Head(w) \o get_word(Tail(w))

sExit == <<"e", "x", "i", "t">>
sQuit == <<"q", "u", "i", "t">>
sCd == <<"c", "d">>
sPwd == <<"p", "w", "d">>
sEq == <<"=">>
\* Names used by the command trees of the model.
sLs == <<"l", "s">>
sNoSuch == <<"n", "o">>
sF == <<"f">>
sG == <<"g">>
sDir == <<"d">>
sNoDir == <<"x">>
sVar == <<"V">>
sVal == <<"1">>

sCat == <<"c", "a", "t">>

\* The programs execvp finds on PATH, and the directories chdir can enter.
Programs == {sLs, sCat}
Dirs == {sDir}

\* strcmp(a, b) == 0
StrEq(a, b) == a = b

(* ---------------------------- command tree ---------------------------- *)

OP_NONE == "OP_NONE"
OP_SEQUENTIAL == "OP_SEQUENTIAL"
OP_PARALLEL == "OP_PARALLEL"
OP_CONDITIONAL_NZERO == "OP_CONDITIONAL_NZERO"
OP_CONDITIONAL_ZERO == "OP_CONDITIONAL_ZERO"
OP_PIPE == "OP_PIPE"
OP_DUMMY == "OP_DUMMY"

\* A command_t pointer that is NULL, and the scmd of an operator node.
NoNode == [op |-> "NULL"]
NoCmd == [verb |-> NULL]

\* simple_command_t: verb, params, in, out, err are words, io_flags an int.
SimpleCommand(verb, params, in, out, err, io_flags) ==
    [verb |-> verb, params |-> params, in |-> in, out |-> out, err |-> err,
     io_flags |-> io_flags]

\* command_t of a simple command (op == OP_NONE, scmd set).
Leaf(s) == [op |-> OP_NONE, cmd1 |-> NoNode, cmd2 |-> NoNode, scmd |-> s]

\* command_t of an operator (cmd1, cmd2 set).
Node(op, a, b) == [op |-> op, cmd1 |-> a, cmd2 |-> b, scmd |-> NoCmd]

\* A node is named by its path from the root: 1 for cmd1, 2 for cmd2.
RECURSIVE NodeAt(_, _)
NodeAt(t, path) ==
    IF path = <<>> THEN t
    ELSE NodeAt(IF Head(path) = 1 THEN t.cmd1 ELSE t.cmd2, Tail(path))

Front(path) == SubSeq(path, 1, Len(path) - 1)
Last(path) == path[Len(path)]

RECURSIVE PathsOf(_)
\* Every node of a tree, by path.
PathsOf(t) ==
    IF t = NoNode THEN {}
    ELSE {<<>>}
         \cup (IF t.op = OP_NONE THEN {}
               ELSE {<<1>> \o q : q \in PathsOf(t.cmd1)}
                    \cup {<<2>> \o q : q \in PathsOf(t.cmd2)})

\* IsPrefix(a, b): node b lies in the subtree of node a.
IsPrefix(a, b) == Len(a) <= Len(b) /\ SubSeq(b, 1, Len(a)) = a

(* ------------------------- file descriptors --------------------------- *)

\* A descriptor table maps the open descriptors of a process to what they
\* refer to: one of the three streams the shell was started with, an end of
\* a pipe, or an open file (id: one per open(2) call).
StdTarget(n) == [kind |-> "std", id |-> n]
PipeEnd(k, end) == [kind |-> "pipe", id |-> k, end |-> end]
FileTarget(n, path, mode) == [kind |-> "file", id |-> n, path |-> path, mode |-> mode]

NoFds == <<>>

\* The descriptor open, dup and pipe hand out: the lowest one not open.
LowestFree(f) ==
    CHOOSE n \in 0..Cardinality(DOMAIN f) :
        n \notin DOMAIN f /\ \A m \in 0..(n - 1) : m \in DOMAIN f

\* dup(fd): the table afterwards; the new descriptor is LowestFree(f).
dup(f, fd) == [x \in DOMAIN f \cup {LowestFree(f)} |-> IF x \in DOMAIN f THEN f[x] ELSE f[fd]]

\* dup2(oldfd, newfd)
dup2(f, oldfd, newfd) == [x \in DOMAIN f \cup {newfd} |-> IF x = newfd THEN f[oldfd] ELSE f[x]]

\* close(fd)
close(f, fd) == [x \in DOMAIN f \ {fd} |-> f[x]]

\* The three standard streams of a table.
StdStreams(f) == <<f[STDIN_FILENO], f[STDOUT_FILENO], f[STDERR_FILENO]>>

\* restore_fd without its dup2: the saved copy is closed and the stream
\* keeps whatever it was bound to.
restore_fd_NoDup2(f, fd, fd_copy) == close(f, fd_copy)

\* restore_fd(fd, fd_copy): dup2(fd_copy, fd); close(fd_copy).
restore_fd(f, fd, fd_copy) == close(dup2(f, fd_copy, fd), fd_copy)

\* The switch of redirect with O_APPEND taken for O_WRONLY.
OpenMode_NoAppend(flag) ==
    CASE flag = O_WRONLY -> "O_TRUNC|O_WRONLY"
      [] flag = O_APPEND -> "O_TRUNC|O_WRONLY"
      [] flag = O_RDONLY -> "O_RDONLY"

\* The open mode redirect asks for first, by its flag argument.
OpenMode(flag) ==
    CASE flag = O_WRONLY -> "O_TRUNC|O_WRONLY"
      [] flag = O_APPEND -> "O_APPEND|O_WRONLY"
      [] flag = O_RDONLY -> "O_RDONLY"

\* open(2) with O_TRUNC empties the file; with O_APPEND every write goes to
\* the end of the file; otherwise a write goes to the offset of the open
\* file description, which starts at 0.
Truncates(mode) == mode \in {"O_TRUNC|O_WRONLY", "O_CREAT|O_TRUNC|O_WRONLY"}
Appends(mode) == mode = "O_APPEND|O_WRONLY"

\* redirect without the close of line 43: new_fd stays open.
redirect_NoClose(st, old_fd, redirect_file, flag) ==
    LET exists == redirect_file \in DOMAIN st.files
        mode == IF exists THEN OpenMode(flag) ELSE "O_CREAT|O_TRUNC|O_WRONLY"
        new_fd == LowestFree(st.fds)
        opened == [x \in DOMAIN st.fds \cup {new_fd} |->
                     IF x = new_fd THEN FileTarget(Len(st.opens) + 1, redirect_file, mode)
                     ELSE st.fds[x]]
    IN  [fds |-> dup2(opened, new_fd, old_fd),
         files |-> [x \in DOMAIN st.files \cup {redirect_file} |->
                      IF x = redirect_file /\ Truncates(mode) THEN <<>> ELSE st.files[x]],
         opens |-> Append(st.opens, [path |-> redirect_file, mode |-> mode, off |-> 0])]

\* redirect(old_fd, redirect_file, flag) on st = [fds, files, opens]: the
\* first open succeeds iff the file exists; otherwise the file is created
\* and opened O_CREAT|O_TRUNC|O_WRONLY, whatever the flag; then dup2, close.
redirect(st, old_fd, redirect_file, flag) ==
    LET exists == redirect_file \in DOMAIN st.files
        mode == IF exists THEN OpenMode(flag) ELSE "O_CREAT|O_TRUNC|O_WRONLY"
        new_fd == LowestFree(st.fds)
        opened == [x \in DOMAIN st.fds \cup {new_fd} |->
                     IF x = new_fd THEN FileTarget(Len(st.opens) + 1, redirect_file, mode)
                     ELSE st.fds[x]]
    IN  [fds |-> close(dup2(opened, new_fd, old_fd), new_fd),
         files |-> [x \in DOMAIN st.files \cup {redirect_file} |->
                      IF x = redirect_file /\ Truncates(mode) THEN <<>> ELSE st.files[x]],
         opens |-> Append(st.opens, [path |-> redirect_file, mode |-> mode, off |-> 0])]

\* Line 119 without its test: a shared target is never noticed.
SameTarget_Never(s) == FALSE

\* Line 119: s->out && s->err && !strcmp(file_out, file_err)
SameTarget(s) == s.out # NULL /\ s.err # NULL /\ StrEq(get_word(s.out), get_word(s.err))

\* The switch on s->io_flags of parse_simple (lines 102-130).
ApplyIoFlags(st, s) ==
    LET file_out == get_word(s.out)
        file_err == get_word(s.err)
        hasOut == s.out # NULL
        hasErr == s.err # NULL
    IN  CASE s.io_flags = 3 ->
               redirect(redirect(st, STDOUT_FILENO, file_out, O_APPEND),
                        STDERR_FILENO, file_err, O_APPEND)
          [] s.io_flags = 2 ->
               redirect(IF hasOut THEN redirect(st, STDOUT_FILENO, file_out, O_WRONLY) ELSE st,
                        STDERR_FILENO, file_err, O_APPEND)
          [] s.io_flags = 1 ->
               redirect(IF hasErr THEN redirect(st, STDERR_FILENO, file_err, O_WRONLY) ELSE st,
                        STDOUT_FILENO, file_out, O_APPEND)
          [] s.io_flags = 0 ->
               IF SameTarget(s)
               THEN redirect(redirect(redirect(st, STDOUT_FILENO, file_out, O_WRONLY),
                                      STDOUT_FILENO, file_out, O_APPEND),
                             STDERR_FILENO, file_err, O_APPEND)
               ELSE LET st1 == IF hasOut THEN redirect(st, STDOUT_FILENO, file_out, O_WRONLY) ELSE st
                    IN  IF hasErr THEN redirect(st1, STDERR_FILENO, file_err, O_WRONLY) ELSE st1
          [] OTHER -> st

\* split_env_command: the command up to its first '=', and what follows it.
RECURSIVE EqPos(_, _)
EqPos(command, i) == IF command[i] = "=" THEN i ELSE EqPos(command, i + 1)

split_env_command(command) ==
    LET p == EqPos(command, 1)
    IN  [var |-> SubSeq(command, 1, p - 1), value |-> SubSeq(command, p + 1, Len(command))]

\* shell_cd returns chdir's int as a bool: 0 on success, 1 on failure (-1).
shell_cd(dir) == IF Head(dir) \in Dirs THEN 0 ELSE 1

(* --------------------------- inputs of the model ---------------------- *)

\* The verb and params of the simple commands of the model: exit, quit, cd
\* (no operand, a directory, a missing directory), pwd, V=1, a program on
\* PATH and a program that is not.
VerbForms ==
    { <<<<sExit>>, NULL>>, <<<<sQuit>>, NULL>>, <<<<sCd>>, NULL>>,
      <<<<sCd>>, <<sDir>>>>, <<<<sCd>>, <<sNoDir>>>>, <<<<sPwd>>, NULL>>,
      << <<sVar, sEq, sVal>>, NULL >>, <<<<sLs>>, NULL>>, <<<<sNoSuch>>, NULL>> }

\* The parser sets an append bit of io_flags only with the redirection it
\* belongs to (bit 0: out, bit 1: err).
WellFormed(s) ==
    /\ s.io_flags \in {1, 3} => s.out # NULL
    /\ s.io_flags \in {2, 3} => s.err # NULL

\* Every simple command over the verbs, redirect targets f and g and io_flags.
SimpleCommands ==
    { s \in { SimpleCommand(v[1], v[2], in, out, err, fl) :
                v \in VerbForms, in \in {NULL, <<sF>>},
                out \in {NULL, <<sF>>, <<sG>>}, err \in {NULL, <<sF>>, <<sG>>},
                fl \in 0..3 } : WellFormed(s) }

Plain(verb, params) == Leaf(SimpleCommand(verb, params, NULL, NULL, NULL, 0))
LsLeaf == Plain(<<sLs>>, NULL)
CatLeaf == Plain(<<sCat>>, NULL)
ExitLeaf == Plain(<<sExit>>, NULL)
CdBadLeaf == Plain(<<sCd>>, <<sNoDir>>)
PwdLeaf == Plain(<<sPwd>>, NULL)
CdLeaf == Plain(<<sCd>>, <<sDir>>)
AssignLeaf == Plain(<<sVar, sEq, sVal>>, NULL)
DummyNode == Node(OP_DUMMY, NoNode, NoNode)

\* The simple commands that stand below an operator in the trees of the model.
OperandLeaves == {LsLeaf, ExitLeaf, CdBadLeaf, PwdLeaf}

Operators == {OP_SEQUENTIAL, OP_PARALLEL, OP_CONDITIONAL_NZERO, OP_CONDITIONAL_ZERO, OP_PIPE}

\* The command trees the evaluator is run on: every simple command, every
\* operator over two simple operands, and the deeper trees named here.
Trees ==
    {Leaf(s) : s \in SimpleCommands}
    \cup {Node(op, a, b) : op \in Operators, a \in OperandLeaves, b \in OperandLeaves}
    \cup { Node(OP_SEQUENTIAL, NoNode, LsLeaf),
           Node(OP_SEQUENTIAL, DummyNode, LsLeaf),
           Node(OP_PIPE, Node(OP_PIPE, PwdLeaf, CatLeaf), CatLeaf),
           Node(OP_PIPE, PwdLeaf, Node(OP_PIPE, CatLeaf, LsLeaf)),
           Node(OP_PIPE, LsLeaf, Node(OP_SEQUENTIAL, LsLeaf, CatLeaf)),
           Node(OP_PIPE, Node(OP_SEQUENTIAL, CatLeaf, CatLeaf), CatLeaf),
           Node(OP_SEQUENTIAL, Node(OP_PIPE, CatLeaf, LsLeaf), LsLeaf),
           Node(OP_SEQUENTIAL, Node(OP_SEQUENTIAL, ExitLeaf, LsLeaf), LsLeaf) }
    \cup {Node(op, a, b) : op \in {OP_SEQUENTIAL, OP_CONDITIONAL_ZERO, OP_PARALLEL, OP_PIPE},
                           a \in {CdLeaf, AssignLeaf}, b \in {PwdLeaf, LsLeaf}}
    \cup {Node(OP_PARALLEL, LsLeaf, AssignLeaf), Node(OP_PARALLEL, PwdLeaf, CdLeaf)}

\* What a file that exists before the shell runs holds: one byte, 0, which
\* no write of the model writes.
PriorContent == <<0>>

\* The files a tree names in its redirections.
FilesNamed(t) ==
    UNION { {get_word(NodeAt(t, q).scmd.in), get_word(NodeAt(t, q).scmd.out),
             get_word(NodeAt(t, q).scmd.err)} \ {NULL} :
            q \in {r \in PathsOf(t) : NodeAt(t, r).op = OP_NONE} }

(* ------------------------------- state -------------------------------- *)

VARIABLES
    tree,      \* the command tree handed to parse_command
    files,     \* the file system: the content of every path that exists
    opens,     \* the open file descriptions of files, in the order of their open(2)
    procs,     \* the processes, by pid
    pipes,     \* the kernel pipes, in the order of their creation
    output,    \* history: what was written to a stream that is no pipe, in order
    begun,     \* history: the nodes parse_command was called on
    result,    \* history: what parse_command returned for a node
    spawned    \* history: the process a simple command forked

vars == <<tree, files, opens, procs, pipes, output, begun, result, spawned>>

\* A frame of parse_command / parse_simple: the node, where the call stands,
\* and the locals the model needs.  The rest is history, of what held when
\* the call began: entry, the standard streams; open, the open descriptors;
\* fs, the file system; born, the pid the next fork was to hand out; cwd0
\* and env0, the working directory and the environment of the caller P.
FrameWith(path, P, fs, born) ==
    [path |-> path, pc |-> "start", ret |-> 0, pid_first |-> 0, pid_second |-> 0,
     wstatus |-> 0, copies |-> <<>>, pipe_fd |-> <<>>, pipe |-> 0,
     entry |-> StdStreams(P.fds), open |-> DOMAIN P.fds, fs |-> fs, born |-> born,
     cwd0 |-> P.cwd, env0 |-> P.env]

NewFrame(path, P) == FrameWith(path, P, files, Len(procs) + 1)

InitFds == [x \in 0..2 |-> StdTarget(x)]

\* The working directory the shell is started in.
StartDir == <<"h">>

\* The state when parse_command is called on the root of tree t.
InitWith(t) ==
    /\ tree = t
    /\ \E existing \in SUBSET FilesNamed(tree) : files = [x \in existing |-> PriorContent]
    /\ opens = <<>>
    /\ procs = <<[st |-> "run", image |-> <<"shell">>, ppid |-> 0,
                  stack |-> <<FrameWith(<<>>, [fds |-> InitFds, cwd |-> StartDir, env |-> <<>>],
                                        files, 2)>>, rv |-> 0, fds |-> InitFds,
                  cwd |-> StartDir, env |-> <<>>, wstatus |-> 0, nw |-> 0, ne |-> 0]>>
    /\ pipes = <<>>
    /\ output = <<>>
    /\ begun = {<<>>}
    /\ result = <<>>
    /\ spawned = <<>>

Init == \E t \in Trees : InitWith(t)

Pids == DOMAIN procs
NextPid == Len(procs) + 1

TopOf(stack) == stack[Len(stack)]
SetTop(stack, f) == [stack EXCEPT ![Len(stack)] = f]

\* Process p is a shell process whose innermost call stands at pc.
At(p, pc) ==
    /\ procs[p].st = "run"
    /\ procs[p].image[1] = "shell"
    /\ procs[p].stack # <<>>
    /\ TopOf(procs[p].stack).pc = pc

Frame(p) == TopOf(procs[p].stack)
NodeOf(p) == NodeAt(tree, Frame(p).path)

\* Process p is at the switch on c->op of a node with operator op.
AtOp(p, op) == At(p, "start") /\ NodeOf(p).op = op

\* P with its innermost frame replaced by f.
WithFrame(P, f) == [P EXCEPT !.stack = SetTop(P.stack, f)]

\* P calling parse_command on the node at path, its own frame left as f.
Calling(P, f, path) ==
    [P EXCEPT !.stack = Append(SetTop(P.stack, f), NewFrame(path, P))]

\* fork(): the child of P (pid p), which goes on with the frames in stack.
Child(P, p, stack) == [P EXCEPT !.ppid = p, !.stack = stack]

\* exit(code) and death by a signal: the process ends with status word w,
\* its descriptors are closed, and it stays a zombie until it is waited for.
Ended(P, w) ==
    [P EXCEPT !.st = "zombie", !.wstatus = w, !.fds = NoFds, !.stack = <<>>, !.nw = 0,
              !.ne = 0]

\* The children of p that were not waited for yet, and those that ended.
Children(p) == {c \in Pids : procs[c].ppid = p /\ procs[c].st # "reaped"}
Zombies(p) == {c \in Children(p) : procs[c].st = "zombie"}

\* The children waitpid(pid, ..) of process p waits for: the child pid, any
\* child (0: of the caller's process group, -1), or a child of another
\* process group (none: the shell never makes a process group).
WaitSet(p, pid) ==
    IF pid > 0 THEN {pid} \cap Children(p)
    ELSE IF pid \in {0, -1} THEN Children(p) ELSE {}

\* What waitpid(pid, &status, 0) of process p can return now: -1 at once
\* when there is no such child, else a child that has ended; none while it
\* has to block.
WaitOutcomes(p, pid) ==
    IF WaitSet(p, pid) = {} THEN {[ok |-> FALSE, child |-> 0]}
    ELSE {[ok |-> TRUE, child |-> c] : c \in WaitSet(p, pid) \cap Zombies(p)}

\* procs with process p replaced by P and the child of outcome o reaped.
Reaped(p, P, o) ==
    [q \in Pids |-> IF q = p THEN P
                    ELSE IF o.ok /\ q = o.child THEN [procs[q] EXCEPT !.st = "reaped"]
                    ELSE procs[q]]

\* The status word a wait leaves in its status argument: the child's, or
\* what the variable held (never assigned) when the wait failed.
StatusWords(o) == IF o.ok THEN {procs[o.child].wstatus} ELSE UninitWstatus

(* ------------------------------- pipes -------------------------------- *)

\* pipe(2): a pipe made by process owner for the OP_PIPE node at path.  left
\* is the child forked for cmd1 (0 before the fork); wired: the parent has
\* bound its stdin and closed pipe_fd[READ] and pipe_fd[WRITE].  wlog and
\* rlog are history: who wrote and who read each byte.
NewPipe(owner, path) ==
    [buf |-> <<>>, wlog |-> <<>>, rlog |-> <<>>, owner |-> owner, left |-> 0,
     path |-> path, wired |-> FALSE]

\* The processes that hold an end of pipe k open.
Holders(k, end) ==
    {p \in Pids : \E fd \in DOMAIN procs[p].fds : procs[p].fds[fd] = PipeEnd(k, end)}

IsWriteEnd(tgt) == tgt.kind = "pipe" /\ tgt.end = WRITE
IsReadEnd(tgt) == tgt.kind = "pipe" /\ tgt.end = READ

\* write(2) to tgt raises SIGPIPE: a pipe no process can read from.
Broken(tgt) == IsWriteEnd(tgt) /\ Holders(tgt.id, READ) = {}

\* write(2) to tgt would block: a full pipe that some process can read from.
WouldBlock(tgt) == IsWriteEnd(tgt) /\ ~Broken(tgt) /\ Len(pipes[tgt.id].buf) >= PipeCap

\* pipes and output after process p has written text to tgt through fd.
PipesAfterWrite(tgt, p, fd) ==
    IF IsWriteEnd(tgt)
    THEN [pipes EXCEPT ![tgt.id].buf = Append(@, Len(pipes[tgt.id].wlog) + 1),
                       ![tgt.id].wlog = Append(@, [by |-> p, fd |-> fd])]
    ELSE pipes

OutputAfterWrite(tgt, p, fd, text) ==
    IF tgt.kind = "pipe" THEN output
    ELSE Append(output, [by |-> p, fd |-> fd, to |-> tgt, text |-> text])

\* The content c of a file after byte b was written at offset off: bytes
\* between the end of the file and off are a hole, -1 here.
WriteAt(c, off, b) ==
    IF off < Len(c) THEN [c EXCEPT ![off + 1] = b]
    ELSE c \o [i \in 1..(off - Len(c)) |-> -1] \o <<b>>

\* The byte a write to a file leaves there: the place of the write in output.
ByteOf(out) == Len(out) + 1

\* The file system fs and the open file descriptions ops after one byte
\* was written to tgt.
FilesAfterWrite(tgt, fs, ops) ==
    IF tgt.kind = "file"
    THEN [fs EXCEPT ![tgt.path] =
             IF Appends(ops[tgt.id].mode) THEN Append(@, ByteOf(output))
             ELSE WriteAt(@, ops[tgt.id].off, ByteOf(output))]
    ELSE fs

OpensAfterWrite(tgt, fs, ops) ==
    IF tgt.kind = "file"
    THEN [ops EXCEPT ![tgt.id].off =
             IF Appends(ops[tgt.id].mode) THEN Len(fs[tgt.path]) + 1 ELSE @ + 1]
    ELSE ops

\* write(fd, text, ..) by process p to tgt, on file system fs and open file
\* descriptions ops.
Written(p, fd, tgt, text, fs, ops) ==
    /\ pipes' = PipesAfterWrite(tgt, p, fd)
    /\ output' = OutputAfterWrite(tgt, p, fd, text)
    /\ files' = FilesAfterWrite(tgt, fs, ops)
    /\ opens' = OpensAfterWrite(tgt, fs, ops)

(* --------------------------- parse_command ---------------------------- *)

\* return: the innermost call of p ends with its ret.
Return(p) ==
    /\ At(p, "return")
    /\ LET P == procs[p]
           f == Frame(p)
       IN  /\ procs' = [procs EXCEPT ![p] = [P EXCEPT !.stack = Front(P.stack), !.rv = f.ret]]
           /\ result' = [q \in DOMAIN result \cup {f.path} |->
                           IF q = f.path THEN f.ret ELSE result[q]]
    /\ UNCHANGED <<tree, files, opens, pipes, output, begun, spawned>>

\* Line 223 without its test: the result of cmd1 is never taken for an exit.
SeqPropagatesExit_Never(ret) == FALSE

\* Line 223: ret == SHELL_EXIT
SeqPropagatesExit(ret) == ret = SHELL_EXIT

\* OP_SEQUENTIAL, lines 221-222 (and 227 when cmd1 is NULL).
SeqFirst(p) ==
    /\ AtOp(p, OP_SEQUENTIAL)
    /\ LET P == procs[p]
           f == Frame(p)
           side == IF NodeOf(p).cmd1 # NoNode THEN 1 ELSE 2
       IN  /\ procs' = [procs EXCEPT ![p] =
                  Calling(P, [f EXCEPT !.pc = IF side = 1 THEN "seq_after1" ELSE "seq_after2"],
                          Append(f.path, side))]
           /\ begun' = begun \cup {Append(f.path, side)}
    /\ UNCHANGED <<tree, files, opens, pipes, output, result, spawned>>

\* OP_SEQUENTIAL, lines 222-227: cmd1 has returned.
SeqAfterFirst(p) ==
    /\ At(p, "seq_after1")
    /\ LET P == procs[p]
           f == [Frame(p) EXCEPT !.ret = P.rv]
       IN  IF SeqPropagatesExit(f.ret)
           THEN /\ procs' = [procs EXCEPT ![p] =
                       WithFrame(P, [f EXCEPT !.pc = "return", !.ret = SHELL_EXIT])]
                /\ begun' = begun
           ELSE /\ procs' = [procs EXCEPT ![p] =
                       Calling(P, [f EXCEPT !.pc = "seq_after2"], Append(f.path, 2))]
                /\ begun' = begun \cup {Append(f.path, 2)}
    /\ UNCHANGED <<tree, files, opens, pipes, output, result, spawned>>

\* OP_SEQUENTIAL, line 227: return what cmd2 returned.
SeqAfterSecond(p) ==
    /\ At(p, "seq_after2")
    /\ procs' = [procs EXCEPT ![p] =
           WithFrame(procs[p], [Frame(p) EXCEPT !.pc = "return", !.ret = procs[p].rv])]
    /\ UNCHANGED <<tree, files, opens, pipes, output, begun, result, spawned>>

\* OP_PARALLEL, lines 231-236: fork; the child evaluates cmd1 and exits.
ParForkFirst(p) ==
    /\ AtOp(p, OP_PARALLEL)
    /\ LET P == procs[p]
           f == Frame(p)
           c == NextPid
       IN  /\ procs' = Append([procs EXCEPT ![p] =
                                  WithFrame(P, [f EXCEPT !.pc = "par_fork2", !.pid_first = c])],
                              Child(P, p, <<[f EXCEPT !.pc = "par_exit"],
                                            NewFrame(Append(f.path, 1), P)>>))
           /\ begun' = begun \cup {Append(f.path, 1)}
    /\ UNCHANGED <<tree, files, opens, pipes, output, result, spawned>>

\* OP_PARALLEL, lines 239-245: fork; the child evaluates cmd2 and exits.
ParForkSecond(p) ==
    /\ At(p, "par_fork2")
    /\ LET P == procs[p]
           f == Frame(p)
           c == NextPid
       IN  /\ procs' = Append([procs EXCEPT ![p] =
                                  WithFrame(P, [f EXCEPT !.pc = "par_wait1", !.pid_second = c])],
                              Child(P, p, <<[f EXCEPT !.pc = "par_exit"],
                                            NewFrame(Append(f.path, 2), P)>>))
           /\ begun' = begun \cup {Append(f.path, 2)}
    /\ UNCHANGED <<tree, files, opens, pipes, output, result, spawned>>

\* OP_PARALLEL, lines 236 and 245: exit(ret) in a child.
ParChildExit(p) ==
    /\ At(p, "par_exit")
    /\ procs' = [procs EXCEPT ![p] = Ended(procs[p], ExitedStatus(procs[p].rv))]
    /\ UNCHANGED <<tree, files, opens, pipes, output, begun, result, spawned>>

\* OP_PARALLEL, line 247: waitpid(pid_first, &first_wstatus, 0).
ParWaitFirst(p) ==
    /\ At(p, "par_wait1")
    /\ \E o \in WaitOutcomes(p, Frame(p).pid_first) :
          procs' = Reaped(p, WithFrame(procs[p], [Frame(p) EXCEPT !.pc = "par_wait2"]), o)
    /\ UNCHANGED <<tree, files, opens, pipes, output, begun, result, spawned>>

\* Line 248 left out: the parent returns without waiting for the second child.
ParWaitSecond_NoWait(p) ==
    /\ At(p, "par_wait2")
    /\ procs' = [procs EXCEPT ![p] =
           WithFrame(procs[p], [Frame(p) EXCEPT !.pc = "return", !.ret = EXIT_SUCCESS])]
    /\ UNCHANGED <<tree, files, opens, pipes, output, begun, result, spawned>>

\* OP_PARALLEL, lines 248-251: waitpid(pid_second, ..); return EXIT_SUCCESS.
ParWaitSecond(p) ==
    /\ At(p, "par_wait2")
    /\ \E o \in WaitOutcomes(p, Frame(p).pid_second) :
          procs' = Reaped(p, WithFrame(procs[p],
                         [Frame(p) EXCEPT !.pc = "return", !.ret = EXIT_SUCCESS]), o)
    /\ UNCHANGED <<tree, files, opens, pipes, output, begun, result, spawned>>

\* The values ret may hold at lines 259 and 272 when cmd1 is NULL.
UninitRet == 0..MaxStatus

\* Line 259: ret == EXIT_FAILURE
NZeroRunsSecond(ret) == ret = EXIT_FAILURE

\* Line 272: ret == EXIT_SUCCESS
ZeroRunsSecond(ret) == ret = EXIT_SUCCESS

\* Lines 256-257 and 269-270: evaluate cmd1 unless it is NULL.
CondFirst(p, op, after) ==
    /\ AtOp(p, op)
    /\ LET P == procs[p]
           f == Frame(p)
       IN  IF NodeOf(p).cmd1 # NoNode
           THEN /\ procs' = [procs EXCEPT ![p] =
                       Calling(P, [f EXCEPT !.pc = after], Append(f.path, 1))]
                /\ begun' = begun \cup {Append(f.path, 1)}
           ELSE /\ \E u \in UninitRet :
                       procs' = [procs EXCEPT ![p] =
                           [WithFrame(P, [f EXCEPT !.pc = after]) EXCEPT !.rv = u]]
                /\ begun' = begun
    /\ UNCHANGED <<tree, files, opens, pipes, output, result, spawned>>

\* Lines 259-265 and 272-278: evaluate cmd2 when runs holds, else return other.
CondAfterFirst(p, at, runs, after, other) ==
    /\ At(p, at)
    /\ LET P == procs[p]
           f == [Frame(p) EXCEPT !.ret = P.rv]
       IN  IF runs
           THEN /\ procs' = [procs EXCEPT ![p] =
                       Calling(P, [f EXCEPT !.pc = after], Append(f.path, 2))]
                /\ begun' = begun \cup {Append(f.path, 2)}
           ELSE /\ procs' = [procs EXCEPT ![p] =
                       WithFrame(P, [f EXCEPT !.pc = "return", !.ret = other])]
                /\ begun' = begun
    /\ UNCHANGED <<tree, files, opens, pipes, output, result, spawned>>

\* Lines 262 and 275: return what cmd2 returned.
CondAfterSecond(p, at) ==
    /\ At(p, at)
    /\ procs' = [procs EXCEPT ![p] =
           WithFrame(procs[p], [Frame(p) EXCEPT !.pc = "return", !.ret = procs[p].rv])]
    /\ UNCHANGED <<tree, files, opens, pipes, output, begun, result, spawned>>

\* OP_CONDITIONAL_NZERO, lines 254-265.
NZeroFirst(p) == CondFirst(p, OP_CONDITIONAL_NZERO, "nzero_after1")
NZeroAfterFirst(p) ==
    CondAfterFirst(p, "nzero_after1", NZeroRunsSecond(procs[p].rv), "nzero_after2", EXIT_SUCCESS)
NZeroAfterSecond(p) == CondAfterSecond(p, "nzero_after2")

\* OP_CONDITIONAL_ZERO, lines 267-278.
ZeroFirst(p) == CondFirst(p, OP_CONDITIONAL_ZERO, "zero_after1")
ZeroAfterFirst(p) ==
    CondAfterFirst(p, "zero_after1", ZeroRunsSecond(procs[p].rv), "zero_after2", EXIT_FAILURE)
ZeroAfterSecond(p) == CondAfterSecond(p, "zero_after2")

\* OP_DUMMY, line 331.
Dummy(p) ==
    /\ AtOp(p, OP_DUMMY)
    /\ procs' = [procs EXCEPT ![p] =
           WithFrame(procs[p], [Frame(p) EXCEPT !.pc = "return", !.ret = EXIT_SUCCESS])]
    /\ UNCHANGED <<tree, files, opens, pipes, output, begun, result, spawned>>

(* ------------------------------ OP_PIPE ------------------------------- *)

\* Lines 282-287: save the three streams, make the pipe.
PipeSetup(p) ==
    /\ AtOp(p, OP_PIPE)
    /\ LET P == procs[p]
           f == Frame(p)
           f1 == dup(P.fds, STDIN_FILENO)
           f2 == dup(f1, STDOUT_FILENO)
           f3 == dup(f2, STDERR_FILENO)
           k == Len(pipes) + 1
           rd == LowestFree(f3)
           f4 == [x \in DOMAIN f3 \cup {rd} |-> IF x = rd THEN PipeEnd(k, READ) ELSE f3[x]]
           wr == LowestFree(f4)
           f5 == [x \in DOMAIN f4 \cup {wr} |-> IF x = wr THEN PipeEnd(k, WRITE) ELSE f4[x]]
       IN  /\ procs' = [procs EXCEPT ![p] =
                  [WithFrame(P, [f EXCEPT !.pc = "pipe_fork", !.pipe = k,
                                          !.copies = <<LowestFree(P.fds), LowestFree(f1), LowestFree(f2)>>,
                                          !.pipe_fd = <<rd, wr>>])
                   EXCEPT !.fds = f5]]
           /\ pipes' = Append(pipes, NewPipe(p, f.path))
    /\ UNCHANGED <<tree, files, opens, output, begun, result, spawned>>

\* Line 289: fork.
PipeFork(p) ==
    /\ At(p, "pipe_fork")
    /\ LET P == procs[p]
           f == Frame(p)
           c == NextPid
       IN  /\ procs' = Append([procs EXCEPT ![p] =
                                  WithFrame(P, [f EXCEPT !.pc = "pipe_parent", !.pid_first = c])],
                              Child(P, p, <<[f EXCEPT !.pc = "pipe_child"]>>))
           /\ pipes' = [pipes EXCEPT ![f.pipe].left = c]
    /\ UNCHANGED <<tree, files, opens, output, begun, result, spawned>>

\* Line 294: the end of the pipe the child binds its stdout to.
PipeChildEnd == WRITE

\* Lines 294-301, in the child: stdout becomes the pipe's write end, both
\* pipe descriptors are closed, cmd1 is evaluated.
PipeChildWire(p) ==
    /\ At(p, "pipe_child")
    /\ LET P == procs[p]
           f == Frame(p)
           fds == close(close(dup2(P.fds, f.pipe_fd[PipeChildEnd + 1], STDOUT_FILENO),
                              f.pipe_fd[READ + 1]), f.pipe_fd[WRITE + 1])
       IN  /\ procs' = [procs EXCEPT ![p] =
                  Calling([P EXCEPT !.fds = fds], [f EXCEPT !.pc = "pipe_child_exit"],
                          Append(f.path, 1))]
           /\ begun' = begun \cup {Append(f.path, 1)}
    /\ UNCHANGED <<tree, files, opens, pipes, output, result, spawned>>

\* Lines 303-306, in the child: restore the streams, exit(ret).
PipeChildExit(p) ==
    /\ At(p, "pipe_child_exit")
    /\ procs' = [procs EXCEPT ![p] = Ended(procs[p], ExitedStatus(procs[p].rv))]
    /\ UNCHANGED <<tree, files, opens, pipes, output, begun, result, spawned>>

\* Line 313 left out: the parent keeps pipe_fd[WRITE] open.
PipeParentFds_KeepWrite(fds, pipe_fd) ==
    close(dup2(fds, pipe_fd[READ + 1], STDIN_FILENO), pipe_fd[READ + 1])

\* Lines 309-314, in the parent: stdin becomes the pipe's read end and both
\* pipe descriptors are closed.
PipeParentFds(fds, pipe_fd) ==
    close(close(dup2(fds, pipe_fd[READ + 1], STDIN_FILENO), pipe_fd[READ + 1]),
          pipe_fd[WRITE + 1])

\* Lines 309-316, in the parent: wire the pipe, evaluate cmd2.
PipeParentWire(p) ==
    /\ At(p, "pipe_parent")
    /\ LET P == procs[p]
           f == Frame(p)
       IN  /\ procs' = [procs EXCEPT ![p] =
                  Calling([P EXCEPT !.fds = PipeParentFds(P.fds, f.pipe_fd)],
                          [f EXCEPT !.pc = "pipe_wait1"], Append(f.path, 2))]
           /\ pipes' = [pipes EXCEPT ![f.pipe].wired = TRUE]
           /\ begun' = begun \cup {Append(f.path, 2)}
    /\ UNCHANGED <<tree, files, opens, output, result, spawned>>

\* Lines 316-317: pid_second = what cmd2 returned; waitpid(pid_first, ..).
PipeWaitFirst(p) ==
    /\ At(p, "pipe_wait1")
    /\ \E o \in WaitOutcomes(p, Frame(p).pid_first) :
          procs' = Reaped(p, WithFrame(procs[p],
                         [Frame(p) EXCEPT !.pc = "pipe_wait2", !.pid_second = procs[p].rv]), o)
    /\ UNCHANGED <<tree, files, opens, pipes, output, begun, result, spawned>>

\* Line 318: waitpid(pid_second, &second_wstatus, 0).
PipeWaitSecond(p) ==
    /\ At(p, "pipe_wait2")
    /\ \E o \in WaitOutcomes(p, Frame(p).pid_second) :
          \E w \in StatusWords(o) :
             procs' = Reaped(p, WithFrame(procs[p],
                            [Frame(p) EXCEPT !.pc = "pipe_restore", !.wstatus = w]), o)
    /\ UNCHANGED <<tree, files, opens, pipes, output, begun, result, spawned>>

\* Lines 320-324 without the dup2 of line 320's restore_fd: stdin stays
\* bound to the pipe.
PipeRestore_StdinKept(p) ==
    /\ At(p, "pipe_restore")
    /\ LET P == procs[p]
           f == Frame(p)
           fds == restore_fd(restore_fd(close(P.fds, f.copies[1]),
                                        STDOUT_FILENO, f.copies[2]),
                             STDERR_FILENO, f.copies[3])
       IN  procs' = [procs EXCEPT ![p] =
               WithFrame([P EXCEPT !.fds = fds],
                         [f EXCEPT !.pc = "return", !.ret = WEXITSTATUS(f.wstatus)])]
    /\ UNCHANGED <<tree, files, opens, pipes, output, begun, result, spawned>>

\* Lines 320-324: restore the streams, return WEXITSTATUS(second_wstatus).
PipeRestore(p) ==
    /\ At(p, "pipe_restore")
    /\ LET P == procs[p]
           f == Frame(p)
           fds == restore_fd(restore_fd(restore_fd(P.fds, STDIN_FILENO, f.copies[1]),
                                        STDOUT_FILENO, f.copies[2]),
                             STDERR_FILENO, f.copies[3])
       IN  procs' = [procs EXCEPT ![p] =
               WithFrame([P EXCEPT !.fds = fds],
                         [f EXCEPT !.pc = "return", !.ret = WEXITSTATUS(f.wstatus)])]
    /\ UNCHANGED <<tree, files, opens, pipes, output, begun, result, spawned>>

(* ---------------------------- parse_simple ---------------------------- *)

SimpleOf(p) == NodeOf(p).scmd

\* args[0]: the verb, resolved by get_argv.
Args0(s) == get_word(s.verb)

\* Line 184: s->up->up && s->up->up->op == OP_PIPE && s->up->up->cmd2->scmd == s
IsPipeRight(path) ==
    /\ path # <<>>
    /\ NodeAt(tree, Front(path)).op = OP_PIPE
    /\ Last(path) = 2

\* Line 97 without its test: exit and quit are taken for any other verb.
IsExit_Never(s) == FALSE

\* Line 97: !strcmp("exit", args[0]) || !strcmp("quit", args[0])
IsExit(s) == StrEq(sExit, Args0(s)) \/ StrEq(sQuit, Args0(s))

\* Lines 88-100: save the three streams, resolve the words, test for exit.
SimpleBegin(p) ==
    /\ AtOp(p, OP_NONE)
    /\ LET P == procs[p]
           f == Frame(p)
           f1 == dup(P.fds, STDIN_FILENO)
           f2 == dup(f1, STDOUT_FILENO)
           f3 == dup(f2, STDERR_FILENO)
           g == [f EXCEPT !.copies = <<LowestFree(P.fds), LowestFree(f1), LowestFree(f2)>>]
           isExit == IsExit(SimpleOf(p))
       IN  procs' = [procs EXCEPT ![p] =
               WithFrame([P EXCEPT !.fds = f3],
                         IF isExit THEN [g EXCEPT !.pc = "exit_func", !.ret = SHELL_EXIT]
                         ELSE [g EXCEPT !.pc = "redirect"])]
    /\ UNCHANGED <<tree, files, opens, pipes, output, begun, result, spawned>>

\* Lines 102-130: the output and error redirections.
SimpleRedirect(p) ==
    /\ At(p, "redirect")
    /\ LET P == procs[p]
           st == ApplyIoFlags([fds |-> P.fds, files |-> files, opens |-> opens], SimpleOf(p))
       IN  /\ procs' = [procs EXCEPT ![p] =
                  WithFrame([P EXCEPT !.fds = st.fds], [Frame(p) EXCEPT !.pc = "dispatch"])]
           /\ files' = st.files
           /\ opens' = st.opens
    /\ UNCHANGED <<tree, pipes, output, begun, result, spawned>>

IsCd(s) == StrEq(sCd, Args0(s))
IsPwd(s) == StrEq(sPwd, Args0(s))
\* Line 156: s->verb->next_part && !strcmp("=", s->verb->next_part->string)
IsAssign(s) == Len(s.verb) >= 2 /\ StrEq(sEq, s.verb[2])

\* cd run where it changes nothing for its caller, as in a forked child.
SimpleCd_InChild(p) ==
    /\ At(p, "dispatch")
    /\ IsCd(SimpleOf(p))
    /\ procs' = [procs EXCEPT ![p] =
           WithFrame(procs[p], [Frame(p) EXCEPT !.pc = "exit_func", !.ret = EXIT_SUCCESS])]
    /\ UNCHANGED <<tree, files, opens, pipes, output, begun, result, spawned>>

\* Lines 132-144: cd.  Without an operand nothing is done; otherwise
\* chdir is tried, and when ret < 0 strerror(errno) is written to stderr.
SimpleCd(p) ==
    /\ At(p, "dispatch")
    /\ IsCd(SimpleOf(p))
    /\ LET P == procs[p]
           s == SimpleOf(p)
           ret == IF s.params = NULL THEN EXIT_SUCCESS ELSE shell_cd(s.params)
           cwd == IF s.params # NULL /\ Head(s.params) \in Dirs THEN Head(s.params) ELSE P.cwd
           failed == s.params # NULL /\ ret < 0
       IN  /\ procs' = [procs EXCEPT ![p] =
                  WithFrame([P EXCEPT !.cwd = cwd],
                            [Frame(p) EXCEPT !.pc = "exit_func",
                                             !.ret = IF failed THEN EXIT_FAILURE ELSE ret])]
           /\ IF failed
              THEN Written(p, STDERR_FILENO, P.fds[STDERR_FILENO], <<"strerror">>, files, opens)
              ELSE UNCHANGED <<files, opens, pipes, output>>
    /\ UNCHANGED <<tree, begun, result, spawned>>

\* Lines 146-154: pwd prints the working directory on stdout.
SimplePwd(p) ==
    /\ At(p, "dispatch")
    /\ ~IsCd(SimpleOf(p)) /\ IsPwd(SimpleOf(p))
    /\ LET P == procs[p]
           tgt == P.fds[STDOUT_FILENO]
       IN  /\ ~WouldBlock(tgt)
           /\ IF Broken(tgt)
              THEN /\ procs' = [procs EXCEPT ![p] = Ended(P, SignaledStatus(SIGPIPE))]
                   /\ UNCHANGED <<files, opens, pipes, output>>
              ELSE /\ procs' = [procs EXCEPT ![p] =
                          WithFrame(P, [Frame(p) EXCEPT !.pc = "exit_func", !.ret = EXIT_SUCCESS])]
                   /\ Written(p, STDOUT_FILENO, tgt, P.cwd, files, opens)
    /\ UNCHANGED <<tree, begun, result, spawned>>

\* Lines 156-167: VAR=value; setenv(var, value, 1) succeeds for a name that
\* is not empty and holds no '='.
SimpleAssign(p) ==
    /\ At(p, "dispatch")
    /\ ~IsCd(SimpleOf(p)) /\ ~IsPwd(SimpleOf(p)) /\ IsAssign(SimpleOf(p))
    /\ LET P == procs[p]
           kv == split_env_command(Args0(SimpleOf(p)))
           env == [x \in DOMAIN P.env \cup {kv.var} |->
                     IF x = kv.var THEN kv.value ELSE P.env[x]]
       IN  procs' = [procs EXCEPT ![p] =
               WithFrame([P EXCEPT !.env = env],
                         [Frame(p) EXCEPT !.pc = "exit_func", !.ret = 0])]
    /\ UNCHANGED <<tree, files, opens, pipes, output, begun, result, spawned>>

\* Lines 169-187: fork; the parent hands the pid back when the command is
\* the right operand of a pipe, and goes on to wait otherwise.
SimpleFork(p) ==
    /\ At(p, "dispatch")
    /\ ~IsCd(SimpleOf(p)) /\ ~IsPwd(SimpleOf(p)) /\ ~IsAssign(SimpleOf(p))
    /\ LET P == procs[p]
           f == Frame(p)
           c == NextPid
       IN  /\ procs' = Append([procs EXCEPT ![p] =
                                  WithFrame(P, IF IsPipeRight(f.path)
                                               THEN [f EXCEPT !.pc = "exit_func", !.ret = c]
                                               ELSE [f EXCEPT !.pc = "wait"])],
                              Child(P, p, <<[f EXCEPT !.pc = "exec"]>>))
           /\ spawned' = [q \in DOMAIN spawned \cup {f.path} |->
                            IF q = f.path THEN c ELSE spawned[q]]
    /\ UNCHANGED <<tree, files, opens, pipes, output, begun, result>>

\* Lines 174-182, in the child: the input redirection, then execvp; when
\* the program is not found, the message on stderr and exit(EXIT_FAILURE).
SimpleExec(p) ==
    /\ At(p, "exec")
    /\ LET P == procs[p]
           s == SimpleOf(p)
           st0 == [fds |-> P.fds, files |-> files, opens |-> opens]
           st == IF s.in # NULL THEN redirect(st0, STDIN_FILENO, get_word(s.in), O_RDONLY) ELSE st0
           tgt == st.fds[STDERR_FILENO]
       IN  IF Args0(s) \in Programs
           THEN /\ procs' = [procs EXCEPT ![p] =
                       [P EXCEPT !.image = <<"prog", Args0(s)>>, !.stack = <<>>, !.fds = st.fds]]
                /\ files' = st.files
                /\ opens' = st.opens
                /\ UNCHANGED <<pipes, output>>
           ELSE /\ procs' = [procs EXCEPT ![p] = Ended(P, ExitedStatus(EXIT_FAILURE))]
                /\ Written(p, STDERR_FILENO, tgt, <<"Execution failed for">> \o Args0(s),
                           st.files, st.opens)
    /\ UNCHANGED <<tree, begun, result, spawned>>

\* Lines 188-189: wait(&wstatus) takes whichever child of the process has
\* ended; ret = WEXITSTATUS(wstatus).
SimpleWait(p) ==
    /\ At(p, "wait")
    /\ \E o \in WaitOutcomes(p, -1) :
          \E w \in StatusWords(o) :
             procs' = Reaped(p, WithFrame(procs[p],
                            [Frame(p) EXCEPT !.pc = "exit_func", !.ret = WEXITSTATUS(w),
                                             !.wstatus = w]), o)
    /\ UNCHANGED <<tree, files, opens, pipes, output, begun, result, spawned>>

\* Lines 193-206: free the words, restore the three streams.
SimpleCleanup(p) ==
    /\ At(p, "exit_func")
    /\ LET P == procs[p]
           f == Frame(p)
           fds == restore_fd(restore_fd(restore_fd(P.fds, STDIN_FILENO, f.copies[1]),
                                        STDOUT_FILENO, f.copies[2]),
                             STDERR_FILENO, f.copies[3])
       IN  procs' = [procs EXCEPT ![p] =
               WithFrame([P EXCEPT !.fds = fds], [f EXCEPT !.pc = "return"])]
    /\ UNCHANGED <<tree, files, opens, pipes, output, begun, result, spawned>>

(* ------------------------- external programs -------------------------- *)

\* What execvp started stands for any program: it may write to its stdout,
\* read its stdin, and exit with any status.
IsProg(p) == procs[p].st = "run" /\ procs[p].image[1] = "prog"

\* write(1, ..): one byte; blocks on a full pipe, SIGPIPE on a pipe that no
\* process can read from.  What a program writes to the streams the shell
\* was started with is not followed: only pipes and files are.
ProgWrite(p) ==
    /\ IsProg(p)
    /\ procs[p].nw < MaxWrite
    /\ LET P == procs[p]
           tgt == P.fds[STDOUT_FILENO]
       IN  /\ tgt.kind # "std"
           /\ ~WouldBlock(tgt)
           /\ IF Broken(tgt)
              THEN /\ procs' = [procs EXCEPT ![p] = Ended(P, SignaledStatus(SIGPIPE))]
                   /\ UNCHANGED <<files, opens, pipes, output>>
              ELSE /\ procs' = [procs EXCEPT ![p] = [P EXCEPT !.nw = @ + 1]]
                   /\ Written(p, STDOUT_FILENO, tgt, <<"byte">>, files, opens)
    /\ UNCHANGED <<tree, begun, result, spawned>>

\* write(2, ..): one byte to the file stderr is bound to.
ProgWriteErr(p) ==
    /\ IsProg(p)
    /\ procs[p].ne < MaxWrite
    /\ LET P == procs[p]
           tgt == P.fds[STDERR_FILENO]
       IN  /\ tgt.kind = "file"
           /\ procs' = [procs EXCEPT ![p] = [P EXCEPT !.ne = @ + 1]]
           /\ Written(p, STDERR_FILENO, tgt, <<"byte">>, files, opens)
    /\ UNCHANGED <<tree, begun, result, spawned>>

\* read(0, ..): one byte from the pipe stdin is bound to.
ProgRead(p) ==
    /\ IsProg(p)
    /\ LET tgt == procs[p].fds[STDIN_FILENO]
       IN  /\ IsReadEnd(tgt)
           /\ pipes[tgt.id].buf # <<>>
           /\ pipes' = [pipes EXCEPT ![tgt.id].buf = Tail(@),
                                     ![tgt.id].rlog = Append(@, [by |-> p, fd |-> STDIN_FILENO,
                                                                 byte |-> Head(pipes[tgt.id].buf)])]
    /\ UNCHANGED <<tree, files, opens, procs, output, begun, result, spawned>>

\* The statuses a program may exit with: any for ls, 0 for cat.
ExitStatuses(name) == IF name = sCat THEN {EXIT_SUCCESS} ELSE 0..MaxStatus

\* exit(status)
ProgExit(p) ==
    /\ IsProg(p)
    /\ \E status \in ExitStatuses(procs[p].image[2]) :
          procs' = [procs EXCEPT ![p] = Ended(procs[p], ExitedStatus(status))]
    /\ UNCHANGED <<tree, files, opens, pipes, output, begun, result, spawned>>

(* --------------------------- specification ---------------------------- *)

Next ==
    \/ \E p \in Pids : Return(p)
    \/ \E p \in Pids : SeqFirst(p)
    \/ \E p \in Pids : SeqAfterFirst(p)
    \/ \E p \in Pids : SeqAfterSecond(p)
    \/ \E p \in Pids : ParForkFirst(p)
    \/ \E p \in Pids : ParForkSecond(p)
    \/ \E p \in Pids : ParChildExit(p)
    \/ \E p \in Pids : ParWaitFirst(p)
    \/ \E p \in Pids : ParWaitSecond(p)
    \/ \E p \in Pids : NZeroFirst(p)
    \/ \E p \in Pids : NZeroAfterFirst(p)
    \/ \E p \in Pids : NZeroAfterSecond(p)
    \/ \E p \in Pids : ZeroFirst(p)
    \/ \E p \in Pids : ZeroAfterFirst(p)
    \/ \E p \in Pids : ZeroAfterSecond(p)
    \/ \E p \in Pids : Dummy(p)
    \/ \E p \in Pids : PipeSetup(p)
    \/ \E p \in Pids : PipeFork(p)
    \/ \E p \in Pids : PipeChildWire(p)
    \/ \E p \in Pids : PipeChildExit(p)
    \/ \E p \in Pids : PipeParentWire(p)
    \/ \E p \in Pids : PipeWaitFirst(p)
    \/ \E p \in Pids : PipeWaitSecond(p)
    \/ \E p \in Pids : PipeRestore(p)
    \/ \E p \in Pids : SimpleBegin(p)
    \/ \E p \in Pids : SimpleRedirect(p)
    \/ \E p \in Pids : SimpleCd(p)
    \/ \E p \in Pids : SimplePwd(p)
    \/ \E p \in Pids : SimpleAssign(p)
    \/ \E p \in Pids : SimpleFork(p)
    \/ \E p \in Pids : SimpleExec(p)
    \/ \E p \in Pids : SimpleWait(p)
    \/ \E p \in Pids : SimpleCleanup(p)
    \/ \E p \in Pids : ProgWrite(p)
    \/ \E p \in Pids : ProgWriteErr(p)
    \/ \E p \in Pids : ProgRead(p)
    \/ \E p \in Pids : ProgExit(p)

Spec == Init /\ [][Next]_vars

(* ------------------------------ claims -------------------------------- *)

OpPaths(op) == {q \in PathsOf(tree) : NodeAt(tree, q).op = op}
Returned(q) == q \in DOMAIN result
HasFirst(q) == NodeAt(tree, q).cmd1 # NoNode

RECURSIVE IsDesc(_, _)
\* Process c is process a or descends from it.
IsDesc(c, a) == c = a \/ (procs[c].ppid # 0 /\ IsDesc(procs[c].ppid, a))

\* The processes forked by the simple commands of the subtree at b.
RanIn(b) == {spawned[l] : l \in {m \in DOMAIN spawned : IsPrefix(b, m)}}

\* Process c has ended (it is a zombie or was waited for).
HasEnded(c) == procs[c].st # "run"

\* C1: Sequential(A, B) begins B only after A has returned; when A returned
\* the shell-exit value, B is never evaluated and the node returns that
\* value; otherwise the node returns what B returned.
C1_Sequential ==
    \A q \in OpPaths(OP_SEQUENTIAL) :
        LET a == Append(q, 1)
            b == Append(q, 2)
        IN  /\ (HasFirst(q) /\ b \in begun) => (Returned(a) /\ result[a] # SHELL_EXIT)
            /\ Returned(q) =>
                  IF HasFirst(q) /\ result[a] = SHELL_EXIT
                  THEN result[q] = SHELL_EXIT /\ b \notin begun
                  ELSE Returned(b) /\ result[q] = result[b]

\* C1 happens: a sequential node has returned after its cmd1 returned the
\* shell-exit value.
C1_Witness ==
    \E q \in OpPaths(OP_SEQUENTIAL) :
        Returned(q) /\ HasFirst(q) /\ result[Append(q, 1)] = SHELL_EXIT

\* C2: IfFailed(A, B) evaluates B for every exit status of A in 1..255, and
\* for status 0 leaves B alone and returns success.
C2_IfFailed ==
    \A q \in OpPaths(OP_CONDITIONAL_NZERO) :
        LET a == Append(q, 1)
            b == Append(q, 2)
        IN  Returned(q) =>
               /\ result[a] \in 1..255 => b \in begun
               /\ result[a] = 0 => (b \notin begun /\ result[q] = EXIT_SUCCESS)

\* C3: IfSucceeded(A, B) evaluates B iff A returned 0, and for a failure
\* status of A returns that status.
C3_IfSucceeded ==
    \A q \in OpPaths(OP_CONDITIONAL_ZERO) :
        LET a == Append(q, 1)
            b == Append(q, 2)
        IN  Returned(q) =>
               /\ (b \in begun) <=> (result[a] = 0)
               /\ result[a] \in 1..255 => result[q] = result[a]

\* C4: an operator node one of whose operands returned the shell-exit value
\* returns that value itself, and after its first operand did so a
\* sequential or conditional node does not evaluate its second.
C4_PropagatesExit ==
    \A q \in PathsOf(tree) :
        NodeAt(tree, q).op \in {OP_SEQUENTIAL, OP_PARALLEL, OP_PIPE,
                                OP_CONDITIONAL_NZERO, OP_CONDITIONAL_ZERO} =>
            \A side \in {1, 2} :
                (Returned(Append(q, side)) /\ result[Append(q, side)] = SHELL_EXIT) =>
                    /\ Returned(q) => result[q] = SHELL_EXIT
                    /\ (side = 1 /\ NodeAt(tree, q).op \notin {OP_PARALLEL, OP_PIPE})
                          => Append(q, 2) \notin begun

\* C5: an external simple command that waits for its child returns the exit
\* status of the process it forked itself.
C5_OwnChildStatus ==
    \A q \in DOMAIN spawned :
        (Returned(q) /\ ~IsPipeRight(q)) =>
            /\ HasEnded(spawned[q])
            /\ result[q] = WEXITSTATUS(procs[spawned[q]].wstatus)

\* What B's evaluation yields as an exit status: the status of the process
\* an external simple command forked, else what the evaluation returned.
RightStatus(b) ==
    IF b \in DOMAIN spawned THEN WEXITSTATUS(procs[spawned[b]].wstatus) ELSE result[b]

\* C6: Pipe(A, B) waits for a process that ran B and returns B's exit
\* status, whatever B is (the shell-exit value of B aside).
C6_PipeReturnsRight ==
    \A p \in Pids :
        (At(p, "return") /\ NodeOf(p).op = OP_PIPE) =>
            LET b == Append(Frame(p).path, 2)
            IN  result[b] # SHELL_EXIT =>
                    /\ Frame(p).pid_second \in RanIn(b)
                    /\ Frame(p).ret = RightStatus(b)

\* The external simple command at the right of pipe k has forked its
\* process and that process has ended.
RightExited(k) ==
    LET b == Append(pipes[k].path, 2)
    IN  b \in DOMAIN spawned /\ HasEnded(spawned[b])

\* C7: once the right stage of a pipe has exited, a left-stage program that
\* writes to the full pipe is not blocked: no process holds the read end.
C7_LeftWriteFails ==
    \A k \in DOMAIN pipes :
        ( /\ pipes[k].wired
          /\ RightExited(k)
          /\ Len(pipes[k].buf) >= PipeCap
          /\ \E p \in Pids : IsProg(p) /\ procs[p].fds[STDOUT_FILENO] = PipeEnd(k, WRITE) )
        => Holders(k, READ) = {}

\* C8: in Pipe(A, B), once the pipe is wired only the left child and its
\* descendants hold the write end; every byte in the pipe was written to
\* stdout by one of them; B's processes read, from stdin, exactly those
\* bytes in order; and when all of them have ended no writer is left, so
\* that the reader sees end-of-file.
C8_PipeDelivers ==
    \A k \in DOMAIN pipes :
        LET pp == pipes[k]
            b == Append(pp.path, 2)
        IN  /\ pp.wired => \A h \in Holders(k, WRITE) : IsDesc(h, pp.left)
            /\ \A i \in DOMAIN pp.wlog :
                   /\ pp.left # 0
                   /\ IsDesc(pp.wlog[i].by, pp.left)
                   /\ pp.wlog[i].fd = STDOUT_FILENO
            /\ \A i \in DOMAIN pp.rlog :
                   /\ pp.rlog[i].by \in RanIn(b)
                   /\ pp.rlog[i].fd = STDIN_FILENO
            /\ [i \in DOMAIN pp.rlog |-> pp.rlog[i].byte] \o pp.buf
                   = [i \in DOMAIN pp.wlog |-> i]
            /\ (pp.wired /\ \A c \in Pids : IsDesc(c, pp.left) => HasEnded(c))
                   => Holders(k, WRITE) = {}

\* C8 happens: a byte of the left side was read by the right side of a
\* wired pipe, and the left child and its descendants have ended.
C8_Witness ==
    \E k \in DOMAIN pipes :
        /\ pipes[k].wired
        /\ pipes[k].rlog # <<>>
        /\ \A c \in Pids : IsDesc(c, pipes[k].left) => HasEnded(c)

\* C9: when parse_simple is about to return, stdin, stdout and stderr refer
\* to what they referred to when it was called.
C9_StreamsRestored ==
    \A p \in Pids :
        (At(p, "return") /\ NodeOf(p).op = OP_NONE) =>
            StdStreams(procs[p].fds) = Frame(p).entry

\* C9 happens: a simple command that redirected both stdout and stderr is
\* about to return.
C9_Witness ==
    \E p \in Pids :
        /\ At(p, "return")
        /\ NodeOf(p).op = OP_NONE
        /\ SimpleOf(p).out # NULL /\ SimpleOf(p).err # NULL
        /\ Len(opens) >= 2

\* C10: Parallel(A, B) has forked both children before it waits for either,
\* returns only when both have ended, and returns success.
C10_Parallel ==
    \A p \in Pids :
        LET f == Frame(p)
        IN  /\ (At(p, "par_wait1") \/ At(p, "par_wait2")) /\ NodeOf(p).op = OP_PARALLEL =>
                  /\ f.pid_first \in Pids /\ procs[f.pid_first].ppid = p
                  /\ f.pid_second \in Pids /\ procs[f.pid_second].ppid = p
                  /\ f.pid_first # f.pid_second
            /\ At(p, "par_fork2") => procs[f.pid_first].st # "reaped"
            /\ At(p, "par_wait1") => procs[f.pid_second].st # "reaped"
            /\ (At(p, "return") /\ NodeOf(p).op = OP_PARALLEL) =>
                  /\ HasEnded(f.pid_first)
                  /\ HasEnded(f.pid_second)
                  /\ f.ret = EXIT_SUCCESS

\* C10 happens: a parallel node is about to return and both its children
\* ended with a failure status.
C10_Witness ==
    \E p \in Pids :
        /\ At(p, "return")
        /\ NodeOf(p).op = OP_PARALLEL
        /\ WEXITSTATUS(procs[Frame(p).pid_first].wstatus) # 0
        /\ WEXITSTATUS(procs[Frame(p).pid_second].wstatus) # 0

\* The tree is one simple command with the given io_flags whose output and
\* error targets name the same path.
SharedTargetLeaf(flags) ==
    /\ tree.op = OP_NONE
    /\ tree.scmd.io_flags = flags
    /\ tree.scmd.out # NULL /\ tree.scmd.err # NULL
    /\ get_word(tree.scmd.out) = get_word(tree.scmd.err)

\* The writes, by their place in output, that went to the file at path.
WritesTo(path) ==
    {i \in DOMAIN output : output[i].to.kind = "file" /\ output[i].to.path = path}

\* The byte of write i is in the file at path.
Holds(path, i) == \E j \in DOMAIN files[path] : files[path][j] = i

\* Writes through stdout and through stderr went to the file at path, one
\* through stderr between two through stdout.
Interleaved(path) ==
    \E i, j, k \in WritesTo(path) :
        /\ i < j /\ j < k
        /\ output[i].fd = STDOUT_FILENO
        /\ output[j].fd = STDERR_FILENO
        /\ output[k].fd = STDOUT_FILENO

\* C11: for a simple command with io_flags 0 whose output and error targets
\* name the same path, every byte written to stdout and every byte written
\* to stderr is in the file, whether the file existed before or not.
C11_SharedTargetKeepsBoth ==
    SharedTargetLeaf(0) =>
        \A i \in WritesTo(get_word(tree.scmd.out)) : Holds(get_word(tree.scmd.out), i)

\* C11 happens: such a command wrote to the file through stdout, then
\* through stderr, then through stdout again.
C11_Witness ==
    SharedTargetLeaf(0) /\ Interleaved(get_word(tree.scmd.out))

\* The streams of simple command s that alone are redirected to their
\* path: the path, and whether the intent is to append.
SoleTargets(s) ==
    {t \in { [path |-> get_word(s.out), append |-> s.io_flags \in {1, 3}, has |-> s.out # NULL],
             [path |-> get_word(s.err), append |-> s.io_flags \in {2, 3}, has |-> s.err # NULL] } :
        t.has /\ (s.out = NULL \/ s.err = NULL \/ get_word(s.out) # get_word(s.err))}

\* The writes that went to the file at path, in their order.
WritesInOrder(path) ==
    SelectSeq([i \in DOMAIN output |-> i], LAMBDA i : i \in WritesTo(path))

\* The file at path was opened.
Opened(path) == \E n \in DOMAIN opens : opens[n].path = path

\* Process p is the shell inside the call of parse_simple on the root.
InRootLeaf(p) ==
    /\ tree.op = OP_NONE
    /\ procs[p].st = "run" /\ procs[p].image[1] = "shell" /\ procs[p].ppid = 0
    /\ procs[p].stack # <<>>

\* C12: once a simple command has redirected a stream to a path of its
\* own, the file exists; with the truncating intent it holds exactly the
\* bytes written through the stream, with the appending intent what it held
\* before the command followed by those bytes.
C12_RoundTrip ==
    \A p \in Pids :
        InRootLeaf(p) =>
            \A t \in SoleTargets(tree.scmd) :
                Opened(t.path) =>
                    /\ t.path \in DOMAIN files
                    /\ files[t.path] =
                          (IF t.append /\ t.path \in DOMAIN Frame(p).fs
                           THEN Frame(p).fs[t.path] ELSE <<>>) \o WritesInOrder(t.path)

\* C12 happens: a command appended two bytes to a file that existed.
C12_Witness ==
    \E p \in Pids :
        /\ InRootLeaf(p)
        /\ \E t \in SoleTargets(tree.scmd) :
              /\ t.append
              /\ t.path \in DOMAIN Frame(p).fs
              /\ Len(WritesInOrder(t.path)) = 2
              /\ files[t.path] = PriorContent \o WritesInOrder(t.path)

\* C13: cd to a path that cannot be entered leaves the working directory
\* as it was, writes a message to the redirected stderr and yields the
\* failure result; cd to a directory enters it and yields success; cd
\* without an operand changes nothing and yields success.
C13_Cd ==
    \A p \in Pids :
        (InRootLeaf(p) /\ At(p, "exit_func") /\ IsCd(tree.scmd)) =>
            LET dir == tree.scmd.params
            IN  CASE dir = NULL ->
                       Frame(p).ret = EXIT_SUCCESS /\ procs[p].cwd = StartDir
                  [] dir # NULL /\ Head(dir) \in Dirs ->
                       Frame(p).ret = EXIT_SUCCESS /\ procs[p].cwd = Head(dir)
                  [] OTHER ->
                       /\ Frame(p).ret = EXIT_FAILURE
                       /\ procs[p].cwd = StartDir
                       /\ \E i \in DOMAIN output :
                              /\ output[i].by = p
                              /\ output[i].fd = STDERR_FILENO
                              /\ output[i].to = procs[p].fds[STDERR_FILENO]

\* C14: the read-only intent never creates a file and never leaves stdin
\* bound to a descriptor that was not opened for reading.
C14_ReadOnlyNeverCreates ==
    /\ \A p \in Pids :
           (procs[p].st = "run" /\ procs[p].fds[STDIN_FILENO].kind = "file") =>
               procs[p].fds[STDIN_FILENO].mode = "O_RDONLY"
    /\ \A p \in Pids :
           (InRootLeaf(p) /\ tree.scmd.in # NULL) =>
               LET file_in == get_word(tree.scmd.in)
               IN  (/\ file_in \notin DOMAIN Frame(p).fs
                    /\ file_in \notin {get_word(tree.scmd.out), get_word(tree.scmd.err)})
                   => file_in \notin DOMAIN files

\* The call process p is about to return from is that of an external
\* simple command at the right of a pipe, which leaves its child to the pipe.
HandsPidBack(p) ==
    /\ NodeOf(p).op = OP_NONE
    /\ IsPipeRight(Frame(p).path)
    /\ Frame(p).path \in DOMAIN spawned

\* C15: when a call of parse_command is about to return, every process the
\* caller forked during the call has ended and was waited for (the child an
\* external command at the right of a pipe leaves to the pipe node aside).
C15_AllReaped ==
    \A p \in Pids :
        (At(p, "return") /\ ~HandsPidBack(p)) =>
            {c \in Children(p) : c >= Frame(p).born} = {}

\* C16: when parse_command is about to return from a pipe node, stdin,
\* stdout and stderr of the caller refer to what they referred to when it
\* was called, and so does every call made afterwards find them.
C16_PipeRestoresStreams ==
    \A p \in Pids :
        /\ (At(p, "return") /\ NodeOf(p).op = OP_PIPE) =>
               StdStreams(procs[p].fds) = Frame(p).entry
        /\ \A i \in 2..Len(procs[p].stack) :
               LET f == procs[p].stack[i]
               IN  (/\ Last(f.path) = 2
                    /\ NodeAt(tree, Front(f.path)).op = OP_SEQUENTIAL
                    /\ NodeAt(tree, Append(Front(f.path), 1)).op = OP_PIPE)
                   => f.entry = procs[p].stack[i - 1].entry

\* C16 happens: the operand that follows a pipe node in a sequence was
\* called, in the process that evaluated the pipe node.
C16_Witness ==
    \E p \in Pids :
        /\ tree.op = OP_SEQUENTIAL /\ tree.cmd1.op = OP_PIPE
        /\ <<1>> \in DOMAIN result
        /\ Len(procs[p].stack) = 2
        /\ Frame(p).path = <<2>>
        /\ Frame(p).entry = StdStreams(InitFds)

\* The working directory and the environment after the simple command of
\* leaf n was run in a process with cwd and env: cd to a directory and
\* VAR=value change them, nothing else does.
CwdAfter(n, cwd) ==
    IF n.op = OP_NONE /\ IsCd(n.scmd) /\ n.scmd.params # NULL /\ Head(n.scmd.params) \in Dirs
    THEN Head(n.scmd.params) ELSE cwd
EnvAfter(n, env) ==
    IF n.op = OP_NONE /\ ~IsCd(n.scmd) /\ ~IsPwd(n.scmd) /\ IsAssign(n.scmd)
    THEN LET kv == split_env_command(Args0(n.scmd))
         IN  [x \in DOMAIN env \cup {kv.var} |-> IF x = kv.var THEN kv.value ELSE env[x]]
    ELSE env

\* C17: a branch of Parallel and the left side of a Pipe are called with
\* the working directory and environment their node was called with, and
\* leave those of the process that forked them alone; the second operand of a
\* sequential or conditional node whose first operand is a simple command
\* is called with what that command left, and so is the process it forks.
C17_Isolation ==
    \A p \in Pids :
        /\ \A i \in 1..(Len(procs[p].stack) - 1) :
               LET f == procs[p].stack[i]
                   g == procs[p].stack[i + 1]
                   n == NodeAt(tree, f.path)
               IN  /\ (n.op = OP_PARALLEL \/ (n.op = OP_PIPE /\ Last(g.path) = 1)) =>
                          (g.cwd0 = f.cwd0 /\ g.env0 = f.env0)
                   /\ (/\ n.op \in {OP_SEQUENTIAL, OP_CONDITIONAL_NZERO, OP_CONDITIONAL_ZERO}
                       /\ Last(g.path) = 2
                       /\ n.cmd1 # NoNode /\ n.cmd1.op = OP_NONE) =>
                          /\ g.cwd0 = CwdAfter(n.cmd1, f.cwd0)
                          /\ g.env0 = EnvAfter(n.cmd1, f.env0)
                          /\ g.path \in DOMAIN spawned =>
                                 /\ procs[spawned[g.path]].cwd = g.cwd0
                                 /\ procs[spawned[g.path]].env = g.env0
        /\ (procs[p].st = "run" /\ procs[p].image[1] = "shell" /\ procs[p].stack # <<>>) =>
               LET f == Frame(p)
                   n == NodeOf(p)
               IN  (/\ f.pc \notin {"par_exit", "pipe_child", "pipe_child_exit"}
                    /\ \/ n.op = OP_PARALLEL
                       \/ /\ n.op = OP_PIPE /\ n.cmd2.op = OP_NONE
                          /\ ~IsCd(n.cmd2.scmd) /\ ~IsAssign(n.cmd2.scmd)) =>
                       (procs[p].cwd = f.cwd0 /\ procs[p].env = f.env0)

\* C17 happens: a parallel node is about to return after the child that
\* ran its first operand changed its own working directory.
C17_Witness ==
    \E p \in Pids :
        /\ At(p, "return")
        /\ NodeOf(p).op = OP_PARALLEL
        /\ procs[Frame(p).pid_first].cwd # procs[p].cwd
        /\ procs[p].cwd = Frame(p).cwd0

\* C18: a simple command whose verb is exit or quit yields the shell-exit
\* value, forks no process and opens no file: the file system is what it
\* was when the command was called, whatever its redirections.
C18_ExitDoesNothing ==
    \A p \in Pids :
        (InRootLeaf(p) /\ Frame(p).pc \in {"exit_func", "return"}
                       /\ Args0(tree.scmd) \in {sExit, sQuit}) =>
            /\ Frame(p).ret = SHELL_EXIT
            /\ Len(procs) = 1
            /\ spawned = <<>>
            /\ opens = <<>>
            /\ files = Frame(p).fs

\* C18 happens: exit with io_flags 3 and both targets, one a file that
\* exists and one that does not, is about to return.
C18_Witness ==
    \E p \in Pids :
        /\ InRootLeaf(p) /\ At(p, "return")
        /\ Args0(tree.scmd) = sExit
        /\ tree.scmd.io_flags = 3
        /\ get_word(tree.scmd.out) \in DOMAIN files
        /\ get_word(tree.scmd.err) \notin DOMAIN files

\* C19: for a simple command with io_flags 3 whose output and error targets
\* name the same path, every byte written to stdout and every byte written
\* to stderr is in the file, also when the command had to create the file.
C19_BothAppendKeepsBoth ==
    SharedTargetLeaf(3) =>
        \A i \in WritesTo(get_word(tree.scmd.err)) : Holds(get_word(tree.scmd.err), i)

\* C20: when a call of parse_command is about to return, the descriptors
\* open in the caller are those that were open when it was called, and
\* none of them refers to the pipe the call created.
C20_NoDescriptorLeak ==
    \A p \in Pids :
        At(p, "return") =>
            /\ DOMAIN procs[p].fds = Frame(p).open
            /\ NodeOf(p).op = OP_PIPE =>
                   \A fd \in DOMAIN procs[p].fds :
                       ~(procs[p].fds[fd].kind = "pipe" /\ procs[p].fds[fd].id = Frame(p).pipe)

\* C20 happens: a pipe node whose right operand is a pipe node is about to
\* return at the root, after two pipes were created in the shell.
C20_Witness ==
    \E p \in Pids :
        /\ At(p, "return")
        /\ Frame(p).path = <<>>
        /\ tree.op = OP_PIPE /\ tree.cmd2.op = OP_PIPE
        /\ Len(pipes) = 2
        /\ DOMAIN procs[p].fds = {STDIN_FILENO, STDOUT_FILENO, STDERR_FILENO}

====
